---- MODULE Spec2Model ----
(***************************************************************************)
(* Model of BarriersTensorFlow.ipynb: the down-and-out barrier call priced *)
(* by a closed formula (analytical_downOut_py, analytical_downOut_tf_pricer)*)
(* and by Monte Carlo (monte_carlo_down_out_py, monte_carlo_down_out_tf)   *)
(* on a matrix of standard normal variates supplied by                     *)
(* generate_random_variables_for_down_out.                                 *)
(*                                                                         *)
(* Numbers.  The notebook computes in binary floating point: float64 in    *)
(* the numpy functions, float32 in the TensorFlow graphs (every            *)
(* placeholder is tf.float32).  The model keeps what makes floating point  *)
(* differ from real arithmetic, the rounding of every operation's result   *)
(* to a fixed number of significant digits, and scales it down: a number   *)
(* is an integer count of ticks of 10^-FracDigits, and every operation     *)
(* rounds its exact result to the nearest number of d significant decimal  *)
(* digits, d = DigitsPy for float64 and d = DigitsTf for float32.          *)
(***************************************************************************)
EXTENDS Integers, Sequences, FiniteSets, TLC

\* ------------------------------------------------------------- bounds
FracDigits == 3      \* a tick is 10^-FracDigits
DigitsPy == 4        \* significant digits of the float64 stand-in
DigitsTf == 3        \* significant digits of the float32 stand-in
MaxSamples == 3      \* rows of the variate matrix
MaxSteps == 2        \* columns of the variate matrix

Unit == 10^FracDigits

\* --------------------------------------------------------- arithmetic
Abs(x) == IF x < 0 THEN -x ELSE x

Sgn(x) == IF x < 0 THEN -1 ELSE 1

\* The integer nearest to a/b (b > 0), ties to even: IEEE round-to-nearest.
DivRound(a, b) ==
    LET q == a \div b
        r == a % b
    IN  IF 2*r < b THEN q
        ELSE IF 2*r > b THEN q + 1
        ELSE IF q % 2 = 0 THEN q ELSE q + 1

RECURSIVE Quantum(_, _, _)
\* The spacing of the d-digit numbers around magnitude a: 10^k, a < 10^(d+k).
Quantum(d, a, p) == IF a \div p < 10^d THEN p ELSE Quantum(d, a, 10*p)

\* x rounded to d significant digits: the rounding every float operation ends with.
fl(d, x) ==
    LET a == Abs(x)
        p == Quantum(d, a, 1)
    IN  Sgn(x) * DivRound(a, p) * p

\* a*b in ticks, rounded to the tick; split so that no product leaves 32 bits.
MulT(a, b) ==
    LET A  == Abs(a)
        B  == Abs(b)
        A1 == A \div Unit
        A0 == A % Unit
        B1 == B \div Unit
        B0 == B % Unit
    IN  Sgn(a) * Sgn(b) * (A1*B1*Unit + A1*B0 + A0*B1 + DivRound(A0*B0, Unit))

RECURSIVE LongDiv(_, _, _, _)
\* Long division: k more decimal digits of rem/b appended to the quotient q,
\* the last one rounded to nearest, ties to even.
LongDiv(rem, b, k, q) ==
    IF k = 0
    THEN IF 2*rem > b \/ (2*rem = b /\ q % 2 = 1) THEN q + 1 ELSE q
    ELSE LongDiv((10*rem) % b, b, k - 1, 10*q + (10*rem) \div b)

\* a/b in ticks (b # 0), rounded to the tick.
DivT(a, b) ==
    LET A == Abs(a)
        B == Abs(b)
    IN  Sgn(a) * Sgn(b) * LongDiv(A % B, B, FracDigits, A \div B)

RECURSIVE ExpSeries(_, _, _, _)
\* sum of x^k/k!, term by term until the term vanishes
ExpSeries(x, k, term, acc) ==
    IF term = 0 THEN acc
    ELSE ExpSeries(x, k + 1, DivRound(MulT(term, x), k + 1), acc + term)

RECURSIVE ExpPos(_)
\* e^x for x >= 0: the series on [0, 1], squaring above
ExpPos(x) ==
    IF x > Unit
    THEN LET h == ExpPos(x \div 2)
         IN  IF x % 2 = 0 THEN MulT(h, h)
             ELSE MulT(MulT(h, h), ExpSeries(1, 0, Unit, 0))
    ELSE ExpSeries(x, 0, Unit, 0)

ExpT(x) == IF x >= 0 THEN ExpPos(x) ELSE DivT(Unit, ExpPos(-x))

RECURSIVE Newton(_, _)
Newton(n, s) ==
    LET t == (s + n \div s) \div 2
    IN  IF t >= s THEN s ELSE Newton(n, t)

ISqrt(n) == IF n = 0 THEN 0 ELSE Newton(n, n)

\* sqrt(x) in ticks for x >= 0, rounded to the tick
SqrtT(x) ==
    LET n == x * Unit
        s == ISqrt(n)
    IN  IF n - s*s > s THEN s + 1 ELSE s

\* The largest logarithm the search looks at, in units: e^-MaxLog is below a tick.
MaxLog == 10

RECURSIVE LnSearch(_, _, _)
\* ln(x) by bisection on ExpT between lo and hi
LnSearch(x, lo, hi) ==
    IF hi - lo <= 1
    THEN IF x - ExpT(lo) <= ExpT(hi) - x THEN lo ELSE hi
    ELSE LET mid == (lo + hi) \div 2
         IN  IF ExpT(mid) <= x THEN LnSearch(x, mid, hi) ELSE LnSearch(x, lo, mid)

\* ln(x) in ticks for x > 0
LnT(x) == LnSearch(x, -MaxLog * Unit, MaxLog * Unit)

\* 1/sqrt(2*pi) = 0.39894, in ticks
InvSqrt2Pi == DivRound(39894 * Unit, 100000)

\* the standard normal density at t
PdfT(t) == MulT(InvSqrt2Pi, ExpT(-(MulT(t, t) \div 2)))

\* Half the number of intervals of the Simpson rule for the normal integral.
SimpsonHalf == 8

RECURSIVE SimpsonSum(_, _)
\* the weighted sum of the density at the points k*x/(2*SimpsonHalf), k = 0..n
SimpsonSum(x, k) ==
    LET n == 2 * SimpsonHalf
        w == IF k = 0 \/ k = n THEN 1 ELSE IF k % 2 = 1 THEN 4 ELSE 2
        f == w * PdfT(DivRound(k * x, n))
    IN  IF k = 0 THEN f ELSE f + SimpsonSum(x, k - 1)

\* Beyond this many units the normal distribution function is 0 or 1 to a tick.
PhiCut == 5

\* the standard normal distribution function: 1/2 + the integral of the density
PhiT(x) ==
    LET a    == Abs(x)
        half == Unit \div 2
        area == DivRound(MulT(a, SimpsonSum(a, 2 * SimpsonHalf)), 6 * SimpsonHalf)
        up   == IF a > PhiCut * Unit \/ half + area > Unit THEN Unit ELSE half + area
    IN  IF x >= 0 THEN up ELSE Unit - up

\* The float operations of format d (d significant digits).
Add(d, a, b) == fl(d, a + b)

Sub(d, a, b) == fl(d, a - b)

Mul(d, a, b) == fl(d, MulT(a, b))

Div(d, a, b) == fl(d, DivT(a, b))

\* a float divided by a Python int n > 0
DivInt(d, a, n) == fl(d, DivRound(a, n))

Exp(d, x) == fl(d, ExpT(x))

Sqrt(d, x) == fl(d, SqrtT(x))

Ln(d, x) == fl(d, LnT(x))

Phi(d, x) == fl(d, PhiT(x))

\* x**y for x > 0
Pow(d, x, y) == fl(d, ExpT(MulT(y, LnT(x))))

Max(a, b) == IF a >= b THEN a ELSE b

\* A value fed to a placeholder of format d, or a literal read in format d.
Cast(d, x) == fl(d, x)

\* ------------------------------------------------- the Monte Carlo pricers
RECURSIVE Array(_, _)
\* The array <<F(1), ..., F(n)>>, every element computed once.
Array(F(_), n) == IF n = 0 THEN << >> ELSE Append(Array(F, n - 1), F(n))

\* What a call gives back: a price, nan (an empty mean, or the square root of a
\* negative time increment, which numpy and TensorFlow carry to the result
\* without raising), or a Python exception.
Value(x) == [kind |-> "value", npv |-> x]

NaN == [kind |-> "nan"]

Raised(e) == [kind |-> "raised", error |-> e]

\* The constant 0.5826 of the barrier shift, in ticks.
Gobet == DivRound(5826 * Unit, 10000)

Rows(N) == N.shape[1]

Cols(N) == N.shape[2]

\* B_shift = B*exp(0.5826*sigma*sqrt(dt)), the same expression in both pricers
B_shift(d, B, sigma, dt) ==
    Mul(d, B, Exp(d, Mul(d, Mul(d, Cast(d, Gobet), sigma), Sqrt(d, dt))))

RECURSIVE cumprod(_, _)
\* the running products of a row, left to right
cumprod(d, row) ==
    IF Len(row) <= 1 THEN row
    ELSE LET c == cumprod(d, SubSeq(row, 1, Len(row) - 1))
             last == c[Len(c)]
         IN  Append(c, Mul(d, last, row[Len(row)]))

RECURSIVE ProdDown(_, _, _, _)
ProdDown(d, f, i, j) == IF i = 1 THEN f[1][j] ELSE Mul(d, ProdDown(d, f, i - 1, j), f[i][j])

\* S_T with the running product taken down the columns (axis=0): row i is then
\* built from the rows above it.
S_T_axis0(d, S, r, sigma, dt, N) ==
    LET drift == Mul(d, Sub(d, r, DivInt(d, Mul(d, sigma, sigma), 2)), dt)
        vol   == Mul(d, sigma, Sqrt(d, dt))
        f     == Array(LAMBDA i : Array(LAMBDA j : Exp(d, Add(d, drift, Mul(d, vol, N.data[i][j]))),
                                        Cols(N)),
                       Rows(N))
    IN  Array(LAMBDA i : Array(LAMBDA j : Mul(d, S, ProdDown(d, f, i, j)), Cols(N)), Rows(N))

\* S_T = S * cumprod(exp((r-sigma**2/2)*dt+sigma*sqrt(dt)*N), axis=1): row i is
\* path i, column j its price at grid point j*dt; the spot S itself is not a
\* grid point of the matrix.  The scalars are computed once and broadcast.
S_T(d, S, r, sigma, dt, N) ==
    LET drift == Mul(d, Sub(d, r, DivInt(d, Mul(d, sigma, sigma), 2)), dt)
        vol   == Mul(d, sigma, Sqrt(d, dt))
        row(i) == cumprod(d, Array(LAMBDA j : Exp(d, Add(d, drift, Mul(d, vol, N.data[i][j]))),
                                   Cols(N)))
    IN  Array(LAMBDA i : LET c == row(i) IN Array(LAMBDA j : Mul(d, S, c[j]), Cols(N)),
              Rows(N))

RECURSIVE RowMin(_)
RowMin(row) ==
    IF Len(row) = 1 THEN row[1]
    ELSE LET m == RowMin(Tail(row)) IN IF row[1] <= m THEN row[1] ELSE m

\* non_touch with the comparison turned round: a path counts when it went below.
non_touch_py_below(paths, b) ==
    Array(LAMBDA i : IF RowMin(paths[i]) < b THEN 1 ELSE 0, Len(paths))

\* non_touch = (np.min(S_T, axis=1) > B_shift)*1
non_touch_py(paths, b) ==
    Array(LAMBDA i : IF RowMin(paths[i]) > b THEN 1 ELSE 0, Len(paths))

\* non_touch with >= in place of >: a path that only touches the barrier survives.
non_touch_tf_ge(paths, b) ==
    Array(LAMBDA i : IF \A j \in 1..Len(paths[i]) : paths[i][j] >= b THEN 1 ELSE 0,
          Len(paths))

\* non_touch = tf.cast(tf.reduce_all(S_T > B_shift, axis=1), tf.float32)
non_touch_tf(paths, b) ==
    Array(LAMBDA i : IF \A j \in 1..Len(paths[i]) : paths[i][j] > b THEN 1 ELSE 0,
          Len(paths))

\* call_payout = maximum(S_T[:,-1] - K, 0)
call_payout(d, paths, K) ==
    Array(LAMBDA i : Max(Sub(d, paths[i][Len(paths[i])], K), 0), Len(paths))

RECURSIVE SumTo(_, _, _)
\* the float sum of v[1..k], accumulated left to right
SumTo(d, v, k) == IF k = 0 THEN 0 ELSE LET s == SumTo(d, v, k - 1) IN Add(d, s, v[k])

\* np.mean / tf.reduce_mean of a non-empty vector: the float sum over the count
Mean(d, v) == DivInt(d, SumTo(d, v, Len(v)), Len(v))

\* non_touch * call_payout, elementwise (0 or the payout, exactly)
Masked(nt, pay) == Array(LAMBDA i : nt[i] * pay[i], Len(pay))

\* dt = time_to_expiry / stdnorm_random_variates.shape[1]
dt_py(d, a) == DivInt(d, a.T, Cols(a.N))

\* The corrected barrier and the path matrix monte_carlo_down_out_py computes.
barrier_py(d, a) == B_shift(d, a.B, a.sigma, dt_py(d, a))

paths_py(d, a) == S_T(d, a.S_0, a.r, a.sigma, dt_py(d, a), a.N)

\* monte_carlo_down_out_py on inputs of float format d (float64 in the
\* notebook): time_to_expiry / 0 raises; a negative dt or no row gives nan.
\* The result carries the function's local arrays beside the number returned.
monte_carlo_down_out_py(d, a) ==
    IF Cols(a.N) = 0 THEN Raised("ZeroDivisionError")
    ELSE IF dt_py(d, a) < 0 \/ Rows(a.N) = 0 THEN NaN
    ELSE
    LET b     == barrier_py(d, a)
        paths == paths_py(d, a)
        nt    == non_touch_py(paths, b)
        pay   == call_payout(d, paths, a.K)
        npv   == Mean(d, Masked(nt, pay))
    IN  [kind |-> "value", npv |-> Mul(d, Exp(d, Mul(d, -a.T, a.r)), npv),
         locals |-> [B_shift |-> b, S_T |-> paths, non_touch |-> nt, call_payout |-> pay]]

\* ------------------------------------------------- the TensorFlow graphs
\* A graph is a function from each node to the set of nodes it is computed
\* from; a placeholder is computed from nothing.  The graph of
\* monte_carlo_down_out_tf, node for node as the function builds it:
GraphMC ==
    [S |-> {}, K |-> {}, dt |-> {}, T |-> {}, sigma |-> {}, r |-> {}, B |-> {}, dw |-> {},
     B_shift     |-> {"B", "sigma", "dt"},
     S_T         |-> {"S", "r", "sigma", "dt", "dw"},
     non_touch   |-> {"S_T", "B_shift"},
     call_payout |-> {"S_T", "K"},
     npv         |-> {"r", "T", "non_touch", "call_payout"}]

\* Nodes no gradient flows through: non_touch is a comparison, reduce_all and a
\* cast from bool, none of which TensorFlow differentiates.
NoGradientMC == {"non_touch"}

\* The variables of greeks = tf.gradients(npv, [S, sigma, r, K, T]), in order.
GreekVarsMC == <<"S", "sigma", "r", "K", "T">>

\* The feed dictionary of the Monte Carlo pricer: each placeholder with the
\* arguments of the call its fed value is computed from.  dt is fed
\* timedelta = time_to_expiry / stdnorm_random_variates.shape[1], computed in
\* Python outside the graph.
FeedMC ==
    [S |-> {"S_0"}, K |-> {"strike"}, r |-> {"riskfree_rate"}, sigma |-> {"implied_vol"},
     dt |-> {"time_to_expiry", "stdnorm_random_variates"}, T |-> {"time_to_expiry"},
     B |-> {"barrier"}, dw |-> {"stdnorm_random_variates"}]

\* The nodes with an edge from a node of `from`, gradient-carrying edges only.
Step(g, nograd, from) ==
    {n \in DOMAIN g : n \notin nograd /\ g[n] \cap (from \ nograd) # {}}

RECURSIVE Downstream(_, _, _)
\* Everything computed, differentiably, from the nodes of `from`.
Downstream(g, nograd, from) ==
    LET next == from \cup Step(g, nograd, from)
    IN  IF next = from THEN from ELSE Downstream(g, nograd, next)

\* The nodes on the gradient paths from x to y: what tf.gradients(y, [x])
\* back-propagates through.  Empty when y does not depend on x in the graph.
Through(g, nograd, y, x) ==
    LET down == Downstream(g, nograd, {x})
    IN  IF y \notin down THEN {}
        ELSE {n \in down : y \in Downstream(g, nograd, {n})}

\* tf.gradients(y, xs): one derivative per variable of xs, in the order of xs.
\* A derivative is described by what it is the derivative of, its variable and
\* the nodes it is propagated through; its number is not computed.
gradients(g, nograd, of, y, xs) ==
    Array(LAMBDA k : [of |-> of, wrt |-> xs[k], through |-> Through(g, nograd, y, xs[k])],
          Len(xs))

\* the flag enable_greeks ignored: greeks are always fetched
monte_carlo_down_out_tf_always(enable_greeks) == [target_calc |-> <<"npv", "greeks">>]

\* monte_carlo_down_out_tf(enable_greeks): the graph is built once, and
\* target_calc lists what a run fetches.
monte_carlo_down_out_tf(enable_greeks) ==
    [target_calc |->
        <<"npv">> \o (IF enable_greeks THEN <<"greeks">> ELSE << >>)]

\* The fetched derivative lists of the Monte Carlo graph, by name.
FetchMC(name) ==
    CASE name = "greeks" -> gradients(GraphMC, NoGradientMC, <<"npv">>, "npv", GreekVarsMC)

\* timedelta taken from shape[0], the number of paths, instead of the steps
timedelta_rows(a) == Cast(DigitsTf, DivInt(DigitsPy, a.T, Rows(a.N)))

\* timedelta = time_to_expiry / stdnorm_random_variates.shape[1], a float64
\* division in Python, fed to the float32 placeholder dt
timedelta(a) == Cast(DigitsTf, DivInt(DigitsPy, a.T, Cols(a.N)))

\* The values of the nodes B_shift and S_T under the feeds of pricer(...).
barrier_tf(a) == B_shift(DigitsTf, Cast(DigitsTf, a.B), Cast(DigitsTf, a.sigma), timedelta(a))

paths_tf(a) ==
    S_T(DigitsTf, Cast(DigitsTf, a.S_0), Cast(DigitsTf, a.r), Cast(DigitsTf, a.sigma),
        timedelta(a),
        [shape |-> a.N.shape,
         data |-> Array(LAMBDA i : Array(LAMBDA j : Cast(DigitsTf, a.N.data[i][j]),
                                         Cols(a.N)),
                        Rows(a.N))])

\* pricer(...) of monte_carlo_down_out_tf: the run of target_calc under the
\* feeds, every fed value converted to float32.  The result is the list
\* fetched, res, with the values the run gave the inner nodes beside it.
pricer_mc(p, a) ==
    IF Cols(a.N) = 0 THEN Raised("ZeroDivisionError")
    ELSE IF timedelta(a) < 0 \/ Rows(a.N) = 0 THEN NaN
    ELSE
    LET d     == DigitsTf
        b     == barrier_tf(a)
        paths == paths_tf(a)
        nt    == non_touch_tf(paths, b)
        pay   == call_payout(d, paths, Cast(d, a.K))
        npv   == Mul(d, Exp(d, Mul(d, -Cast(d, a.r), Cast(d, a.T))), Mean(d, Masked(nt, pay)))
    IN  [kind |-> "value",
         res |-> <<npv>> \o Array(LAMBDA k : FetchMC(p.target_calc[k + 1]),
                                  Len(p.target_calc) - 1),
         nodes |-> [B_shift |-> b, S_T |-> paths, non_touch |-> nt, call_payout |-> pay]]

\* ---------------------------------------------------- the closed formulas
Complex == [kind |-> "complex"]

\* lead*Phi(d_1) - disc*Phi(d_2), with d_2 = d_1 - sd
phi_value(d, lead, disc, sd, d_1) ==
    Value(Sub(d, Mul(d, lead, Phi(d, d_1)), Mul(d, disc, Phi(d, Sub(d, d_1, sd)))))

\* the same with Phi(d_1) = Phi(d_2) = p, for an infinite d_1
limit_value(d, lead, disc, p) == Value(Sub(d, Mul(d, lead, p), Mul(d, disc, p)))

\* d_1 = num / sd: with sd = 0 (dt = 0) numpy's division gives an infinite
\* d_1 of the sign of num, or nan for 0/0
quotient_value(d, lead, disc, sd, num) ==
    IF sd # 0 THEN phi_value(d, lead, disc, sd, Div(d, num, sd))
    ELSE IF num = 0 THEN NaN
    ELSE limit_value(d, lead, disc, IF num > 0 THEN Unit ELSE 0)

\* lead*Phi(d_1) - K*exp(-r*dt)*Phi(d_2) with
\*   d_1 = (log(x) + (r+sigma**2/2)*dt) / (sigma*sqrt(dt)),  d_2 = d_1 - sigma*sqrt(dt):
\* the expression of blackScholes_py (lead = S, x = S/K) and of the reflected
\* call inside the barrier formula (lead = B**2/S, x = B**2/(S*K)), for K # 0
\* and sigma # 0.  The square root of a negative dt and the logarithm of a
\* negative x are nan.
call_term(d, lead, x, K, dt, sigma, r) ==
    IF dt < 0 \/ x <= 0 THEN NaN
    ELSE quotient_value(d, lead,
                        Mul(d, K, Exp(d, Mul(d, -r, dt))),
                        Mul(d, sigma, Sqrt(d, dt)),
                        Add(d, Ln(d, x),
                            Mul(d, Add(d, r, DivInt(d, Mul(d, sigma, sigma), 2)), dt)))

\* blackScholes_py, the plain call
blackScholes_py(d, S, K, dt, sigma, r) == call_term(d, S, Div(d, S, K), K, dt, sigma, r)

\* 1 - 2*r/sigma**2, the exponent of the reflection principle
exponent_two_r(d, r, sigma) == Sub(d, Unit, Div(d, 2 * r, Mul(d, sigma, sigma)))

\* 1-r/sigma**2, the exponent of (S/B) as both analytic functions write it
reflection_exponent(d, r, sigma) == Sub(d, Unit, Div(d, r, Mul(d, sigma, sigma)))

\* bs - reflection, with reflection = (S/B)**(1-r/sigma**2) * inner
minus_reflection(d, S, B, sigma, r, bs, inner) ==
    IF bs.kind = "nan" \/ inner.kind = "nan" \/ Div(d, S, B) <= 0 THEN NaN
    ELSE Value(Sub(d, bs.npv,
                   Mul(d, Pow(d, Div(d, S, B), reflection_exponent(d, r, sigma)), inner.npv)))

\* bs - reflection, the body shared by analytical_downOut_py and the graph of
\* analytical_downOut_tf_pricer, for S, K, sigma, B all different from 0:
\*   reflection = (S/B)**(1-r/sigma**2) * ((B**2/S)*Phi(d_1a) - K*exp(-r*dt)*Phi(d_2a))
down_out_value(d, S, K, dt, sigma, r, B) ==
    minus_reflection(d, S, B, sigma, r,
                     call_term(d, S, Div(d, S, K), K, dt, sigma, r),
                     call_term(d, Div(d, Mul(d, B, B), S), Div(d, Mul(d, B, B), Mul(d, S, K)),
                               K, dt, sigma, r))

\* analytical_downOut_py on Python floats of format d.  The divisions of Python
\* floats raise on a zero divisor: r/sigma**2, S_0/K, B**2/(S*K) and S/B, in
\* that order; a negative S/B raised to a fractional power is a complex number.
analytical_downOut_py(d, a) ==
    IF a.sigma = 0 \/ a.K = 0 \/ a.S_0 = 0 \/ a.B = 0 THEN Raised("ZeroDivisionError")
    ELSE IF Sgn(a.S_0) # Sgn(a.B) THEN Complex
    ELSE down_out_value(d, a.S_0, a.K, a.T, a.sigma, a.r, a.B)

\* The graph of analytical_downOut_tf_pricer.
GraphAn ==
    [S |-> {}, K |-> {}, dt |-> {}, sigma |-> {}, r |-> {}, B |-> {},
     d_1        |-> {"S", "K", "r", "sigma", "dt"},
     d_2        |-> {"d_1", "sigma", "dt"},
     bs_npv     |-> {"S", "d_1", "K", "r", "dt", "d_2"},
     d_1a       |-> {"B", "S", "K", "r", "sigma", "dt"},
     d_2a       |-> {"d_1a", "sigma", "dt"},
     reflection |-> {"S", "B", "r", "sigma", "d_1a", "K", "dt", "d_2a"},
     npv        |-> {"bs_npv", "reflection"}]

GreekVarsAn == <<"S", "sigma", "r", "K", "dt", "B">>

\* What the node tf.gradients(y, [x]) adds to the graph is computed from: the
\* nodes on the gradient paths and their inputs.
GradInputs(g, nograd, y, x) ==
    UNION {{n} \cup g[n] : n \in Through(g, nograd, y, x)}

\* The analytic graph with the nodes greeks[0] and greeks[1] in it.
GraphAn2 ==
    ("greeks[0]" :> GradInputs(GraphAn, {}, "npv", "S"))
    @@ ("greeks[1]" :> GradInputs(GraphAn, {}, "npv", "sigma"))
    @@ GraphAn

\* analytical_downOut_tf_pricer(enable_greeks): target_calc = [npv], and with
\* greeks enabled += [greeks, dS_2ndOrder, dsigma_2ndOrder]
analytical_downOut_tf_pricer(enable_greeks) ==
    [target_calc |->
        <<"npv">> \o (IF enable_greeks THEN <<"greeks", "dS_2ndOrder", "dsigma_2ndOrder">>
                      ELSE << >>)]

\* The fetched derivative lists of the analytic graph, by name.
FetchAn(name) ==
    CASE name = "greeks" ->
            gradients(GraphAn, {}, <<"npv">>, "npv", GreekVarsAn)
      [] name = "dS_2ndOrder" ->
            gradients(GraphAn2, {}, <<"npv", "S">>, "greeks[0]", GreekVarsAn)
      [] name = "dsigma_2ndOrder" ->
            gradients(GraphAn2, {}, <<"npv", "sigma">>, "greeks[1]", GreekVarsAn)

\* res = sess.run(target_calc, ...): the npv v and the derivative lists fetched
run_an(p, v) ==
    IF v.kind = "nan" THEN NaN
    ELSE [kind |-> "value",
          res |-> <<v.npv>> \o Array(LAMBDA k : FetchAn(p.target_calc[k + 1]),
                                     Len(p.target_calc) - 1)]

\* price(...) of analytical_downOut_tf_pricer for S_0, strike, implied_vol and
\* barrier different from 0: the run of target_calc, the feeds in float32.
price_an(p, a) ==
    run_an(p, down_out_value(DigitsTf, Cast(DigitsTf, a.S_0), Cast(DigitsTf, a.K),
                             Cast(DigitsTf, a.T), Cast(DigitsTf, a.sigma),
                             Cast(DigitsTf, a.r), Cast(DigitsTf, a.B)))

\* ------------------------------------------------ the variate supply
\* numpy's global generator (np.random), scaled down: a linear congruential
\* generator in place of the Mersenne twister, and a table of standard normal
\* quantiles in place of the normal transform.  What the model keeps is that
\* the generator is one process-wide state, that seed(s) sets it from s alone
\* and that every draw reads and advances it.
LcgModulus == 8192

LcgMultiplier == 229

LcgIncrement == 1

NormalTable == <<-(3 * Unit) \div 2, -Unit \div 2, 0, Unit \div 2, (3 * Unit) \div 2>>

\* np.random.seed(seed): the state set from the seed
seed_state(seed) == (seed * LcgMultiplier + LcgIncrement) % LcgModulus

\* one draw: the state after it, and the value it gives
advance(state) == (state * LcgMultiplier + LcgIncrement) % LcgModulus

variate(state) == NormalTable[((state \div 64) % Len(NormalTable)) + 1]

RECURSIVE draws(_, _)
\* k draws from state: [values |-> the k values in order, state |-> the state after]
draws(state, k) ==
    IF k = 0 THEN [values |-> << >>, state |-> state]
    ELSE LET before == draws(state, k - 1)
             after  == advance(before.state)
         IN  [values |-> Append(before.values, variate(after)), state |-> after]

\* np.random.randn(samples, steps) from state: the matrix, filled row by row
randn(state, samples, steps) ==
    LET got == draws(state, samples * steps)
    IN  [N |-> [shape |-> <<samples, steps>>,
                data |-> Array(LAMBDA i : SubSeq(got.values, (i - 1) * steps + 1, i * steps),
                               samples)],
         state |-> got.state]

\* the generator without np.random.seed(seed): it draws from wherever the
\* global generator stands
generate_unseeded(state, steps, samples, seed) == randn(state, samples, steps)

\* generate_random_variables_for_down_out(steps, samples, seed) with the global
\* generator in state `state`: np.random.seed(seed), then np.random.randn.
generate_random_variables_for_down_out(state, steps, samples, seed) ==
    randn(seed_state(seed), samples, steps)

\* ------------------------------------------------------------ the state
VARIABLES
    rng,      \* the state of numpy's global generator
    gen,      \* the generate_... calls: [first, last, others]; a call is [key, N],
              \* others counts the other draws from the generator since the first
    pricers,  \* the TensorFlow pricers built: [mc, an]
    args,     \* the arguments the next pricer call is made with
    out,      \* the Monte Carlo results of the last calls with args: [py, tf]
    ref,      \* the analytic results of the last calls with args: [py, tf]
    prev      \* the calls before args was changed: [args, py, tf, change], or None

vars == <<rng, gen, pricers, args, out, ref, prev>>

None == [kind |-> "none"]

NoOut == [py |-> None, tf |-> None]

NoGen == [first |-> None, last |-> None, others |-> 0]

MaxSeed == 5         \* seeds 0..MaxSeed

MaxOthers == 1       \* other draws from the global generator that are followed

\* The inputs: prices, rates and times in ticks.
Spots == {10 * Unit, 50 * Unit}

Strikes == {11 * Unit}

Expiries == {2 * Unit}

Vols == {Unit \div 5, (2 * Unit) \div 5}

Rates == {0, (3 * Unit) \div 100}

Barriers == {9 * Unit, 11 * Unit, 45 * Unit}

Seeds == 0..MaxSeed

\* The matrices N = generate_random_variables_for_down_out(steps, samples, seed)
\* of the notebook, for the shapes and seeds given.
Supplied(ms, ns, ss) ==
    {generate_random_variables_for_down_out(0, n, m, s) : m \in ms, n \in ns, s \in ss}

RowPermutations(m) == {p \in [1..m -> 1..m] : \A i, j \in 1..m : p[i] = p[j] => i = j}

\* The cells that build the pricers.
Build(enable_greeks) ==
    [mc |-> monte_carlo_down_out_tf(enable_greeks),
     an |-> analytical_downOut_tf_pricer(enable_greeks)]

\* The notebook's Monte Carlo cells: N is generated, the pricer built with
\* greeks, and the arguments chosen.
InitMC ==
    /\ \E g \in Supplied(1..MaxSamples, 1..MaxSteps, Seeds) :
          /\ rng = g.state
          /\ args \in [S_0 : Spots, K : Strikes, T : Expiries, sigma : Vols, r : Rates,
                       B : Barriers, N : {g.N}]
    /\ gen = NoGen
    /\ pricers = Build(TRUE)
    /\ out = NoOut
    /\ ref = NoOut
    /\ prev = None

\* The cell monte_carlo_down_out_py(S_0, ..., N), run in float64.
CallPy ==
    /\ out.py = None
    /\ out' = [out EXCEPT !.py = monte_carlo_down_out_py(DigitsPy, args)]
    /\ UNCHANGED <<rng, gen, pricers, args, ref, prev>>

\* The cell tf_mc_pricer(S_0, ..., N).
CallTf ==
    /\ out.tf = None
    /\ out' = [out EXCEPT !.tf = pricer_mc(pricers.mc, args)]
    /\ UNCHANGED <<rng, gen, pricers, args, ref, prev>>

\* The barrier is changed, everything else kept, for the next call.
ChangeBarrier ==
    /\ prev = None
    /\ out.py # None /\ out.tf # None
    /\ \E b \in Barriers \ {args.B} :
          /\ args' = [args EXCEPT !.B = b]
          /\ prev' = [args |-> args, py |-> out.py, tf |-> out.tf, change |-> [kind |-> "barrier"]]
    /\ out' = NoOut
    /\ UNCHANGED <<rng, gen, pricers, ref>>

\* The rows of the variate matrix are permuted: row i becomes the old row p[i].
PermuteRows ==
    /\ prev = None
    /\ out.py # None /\ out.tf # None
    /\ \E p \in RowPermutations(Rows(args.N)) :
          /\ p # [i \in 1..Rows(args.N) |-> i]
          /\ args' = [args EXCEPT !.N.data = Array(LAMBDA i : args.N.data[p[i]], Rows(args.N))]
          /\ prev' = [args |-> args, py |-> out.py, tf |-> out.tf, change |-> [kind |-> "rows", p |-> p]]
    /\ out' = NoOut
    /\ UNCHANGED <<rng, gen, pricers, ref>>

NextMC == CallPy \/ CallTf \/ ChangeBarrier \/ PermuteRows

SpecMC == InitMC /\ [][NextMC]_vars

\* ------------------------------------------- the analytic cells, valid inputs
\* Inputs of the barrier contract with the barrier below the spot.
SpotsAn == {10 * Unit}

ExpiriesAn == {Unit, 2 * Unit}

BarriersAn == {8 * Unit, 9 * Unit}

InitAn ==
    /\ \E g \in Supplied({MaxSamples}, {MaxSteps}, Seeds) :
          /\ rng = g.state
          /\ args \in [S_0 : SpotsAn, K : Strikes, T : ExpiriesAn, sigma : Vols, r : Rates,
                       B : BarriersAn, N : {g.N}]
    /\ gen = NoGen
    /\ \E enable_greeks \in BOOLEAN : pricers = Build(enable_greeks)
    /\ out = NoOut
    /\ ref = NoOut
    /\ prev = None

\* The cell analytical_downOut_py(S_0, ..., barrier), run in float64.
CallAnalyticPy ==
    /\ ref.py = None
    /\ ref' = [ref EXCEPT !.py = analytical_downOut_py(DigitsPy, args)]
    /\ UNCHANGED <<rng, gen, pricers, args, out, prev>>

\* The cell down_out_pricer(S_0, ..., barrier).
CallAnalyticTf ==
    /\ ref.tf = None
    /\ ref' = [ref EXCEPT !.tf = price_an(pricers.an, args)]
    /\ UNCHANGED <<rng, gen, pricers, args, out, prev>>

NextAn == CallAnalyticPy \/ CallAnalyticTf \/ CallTf

SpecAn == InitAn /\ [][NextAn]_vars

\* ------------------------------------------------ calls with any arguments
\* Arguments a caller can pass, the non-positive ones and S <= B among them.
AnySpots == {-10 * Unit, 0, 9 * Unit, 10 * Unit}

AnyStrikes == {-11 * Unit, 0, 11 * Unit}

AnyExpiries == {-2 * Unit, 0, 2 * Unit}

AnyVols == {-Unit \div 5, 0, Unit \div 5}

AnyRates == {(3 * Unit) \div 100}

AnyBarriers == {9 * Unit}

InitAny ==
    /\ \E g \in Supplied(0..1, 0..2, {0}) :
          /\ rng = g.state
          /\ args \in [S_0 : AnySpots, K : AnyStrikes, T : AnyExpiries, sigma : AnyVols,
                       r : AnyRates, B : AnyBarriers, N : {g.N}]
    /\ gen = NoGen
    /\ pricers = Build(TRUE)
    /\ out = NoOut
    /\ ref = NoOut
    /\ prev = None

NextAny == CallPy \/ CallAnalyticPy

SpecAny == InitAny /\ [][NextAny]_vars

\* ------------------------------------------------- the variate supply, run
\* The process starts with the global generator in a state the notebook does
\* not control (numpy seeds it from the operating system).
InitRng ==
    /\ rng \in {0, LcgModulus - 1}
    /\ gen = NoGen
    /\ pricers = Build(TRUE)
    /\ args = None
    /\ out = NoOut
    /\ ref = NoOut
    /\ prev = None

\* A cell calls generate_random_variables_for_down_out(steps, samples, seed).
Generate ==
    \E steps \in 1..MaxSteps, samples \in 1..MaxSamples, seed \in {0, 1, MaxSeed} :
        LET g    == generate_random_variables_for_down_out(rng, steps, samples, seed)
            call == [key |-> [steps |-> steps, samples |-> samples, seed |-> seed], N |-> g.N]
        IN  /\ rng' = g.state
            /\ gen' = IF gen.first = None
                      THEN [first |-> call, last |-> None, others |-> 0]
                      ELSE [gen EXCEPT !.last = call]
            /\ UNCHANGED <<pricers, args, out, ref, prev>>

\* Some other code of the process draws one number from np.random.
OtherDraw ==
    /\ gen.others < MaxOthers
    /\ rng' = advance(rng)
    /\ gen' = [gen EXCEPT !.others = @ + 1]
    /\ UNCHANGED <<pricers, args, out, ref, prev>>

NextRng == Generate \/ OtherDraw

SpecRng == InitRng /\ [][NextRng]_vars

\* C5: generate_random_variables_for_down_out is a function of (steps, samples,
\* seed) alone: whatever calls and other draws came before, a call with the
\* seed and shape of an earlier call returns the identical matrix, and the
\* matrix has samples rows of steps columns.
C5_SameSeedAndShapeSameMatrix ==
    /\ gen.first # None =>
          /\ gen.first.N.shape = <<gen.first.key.samples, gen.first.key.steps>>
          /\ Len(gen.first.N.data) = gen.first.key.samples
          /\ \A i \in 1..gen.first.key.samples : Len(gen.first.N.data[i]) = gen.first.key.steps
    /\ gen.first # None /\ gen.last # None /\ gen.last.key = gen.first.key =>
          gen.last.N = gen.first.N

\* The first call's arguments are used again after other draws have moved the
\* global generator, and the matrix is the same.
C5_Witness ==
    /\ gen.first # None /\ gen.last # None
    /\ gen.last.key = gen.first.key
    /\ gen.others > 0
    /\ rng # seed_state(gen.first.key.seed)
    /\ gen.last.N = gen.first.N

\* ---------------------------------- claims on the two Monte Carlo pricers
PyDone == out.py.kind = "value"

TfDone == out.tf.kind = "value"

PyPrice == out.py.npv

TfPrice == out.tf.res[1]

\* C1: with the barrier B above the spot S_0 every path is knocked out and
\* both Monte Carlo pricers return exactly 0, whatever the variate matrix.
C1_BarrierAboveSpotPricesZero ==
    args.B > args.S_0 => /\ PyDone => PyPrice = 0
                         /\ TfDone => TfPrice = 0

\* The price C2 describes, computed from a path matrix and a corrected barrier:
\* exp(-rT) times the mean over all paths of indicator x max(last - K, 0), the
\* indicator 1 exactly when every grid point is strictly above the barrier.
DiscountedMaskedMean(d, paths, b, K, r, T) ==
    LET ind(i) == IF \A j \in 1..Len(paths[i]) : paths[i][j] > b THEN 1 ELSE 0
        pay(i) == Max(Sub(d, paths[i][Len(paths[i])], K), 0)
    IN  Mul(d, Exp(d, Mul(d, -r, T)), Mean(d, Array(LAMBDA i : ind(i) * pay(i), Len(paths))))

\* C2: the Monte Carlo price is exp(-rT) times the mean over all paths of
\* (indicator x max(S_T - K, 0)): S_T the last grid point of the path, the
\* indicator 1 exactly when every grid point of the path is strictly above the
\* corrected barrier, which enters the indicator only.
C2_PriceIsDiscountedMaskedMean ==
    /\ PyDone => PyPrice = DiscountedMaskedMean(DigitsPy, out.py.locals.S_T,
                                                out.py.locals.B_shift, args.K, args.r, args.T)
    /\ TfDone => TfPrice = DiscountedMaskedMean(DigitsTf, out.tf.nodes.S_T,
                                                out.tf.nodes.B_shift, Cast(DigitsTf, args.K),
                                                Cast(DigitsTf, args.r), Cast(DigitsTf, args.T))

\* A run in which a path in the money only touches the corrected barrier, and
\* is knocked out, while the price is carried by another path.
C2_Witness ==
    /\ TfDone /\ TfPrice > 0
    /\ \E i \in 1..Rows(args.N) :
          /\ RowMin(out.tf.nodes.S_T[i]) = out.tf.nodes.B_shift
          /\ out.tf.nodes.call_payout[i] > 0
          /\ out.tf.nodes.non_touch[i] = 0

\* C3: the T-derivative the Monte Carlo pricer returns differentiates through
\* every dependence of the price on time_to_expiry: for every placeholder whose
\* fed value is computed from time_to_expiry, the gradient paths from that
\* placeholder to npv are part of what the T-derivative is propagated through.
C3_ThetaDifferentiatesThroughTimeIncrement ==
    TfDone /\ Len(out.tf.res) > 1 =>
        \A k \in 1..Len(out.tf.res[2]) :
            out.tf.res[2][k].wrt = "T" =>
                \A p \in DOMAIN FeedMC :
                    "time_to_expiry" \in FeedMC[p] =>
                        Through(GraphMC, NoGradientMC, "npv", p) \subseteq out.tf.res[2][k].through

BarrierChanged == prev # None /\ prev.change.kind = "barrier"

\* C8: for a fixed variate matrix and fixed S, K, T, sigma, r, the price with
\* the lower of two barriers is at least the price with the higher one.
C8_PriceMonotoneInBarrier ==
    BarrierChanged =>
        /\ PyDone => /\ prev.args.B <= args.B => prev.py.npv >= PyPrice
                     /\ args.B <= prev.args.B => PyPrice >= prev.py.npv
        /\ TfDone => /\ prev.args.B <= args.B => prev.tf.res[1] >= TfPrice
                     /\ args.B <= prev.args.B => TfPrice >= prev.tf.res[1]

\* The barrier was raised and both prices went strictly down.
C8_Witness ==
    /\ BarrierChanged /\ PyDone /\ TfDone
    /\ args.B > prev.args.B
    /\ PyPrice < prev.py.npv
    /\ TfPrice < prev.tf.res[1]

RowsPermuted == prev # None /\ prev.change.kind = "rows"

\* x and y differ by at most k roundings of a d-digit number of size scale
\* (k * scale * 10^(1-d)), or by two ticks where the numbers are that small.
Within(d, k, x, y, scale) ==
    Abs(x - y) * 10^(d - 1) <= k * scale + 2 * 10^(d - 1)

\* C9 as stated: the price from a row-permuted variate matrix equals the price
\* from the original matrix.
C9_PermutedPriceEqual ==
    RowsPermuted /\ PyDone => PyPrice = prev.py.npv

\* C9 amended: under a permutation of the rows each path's indicator and payoff
\* move with its row, unchanged, and the price changes by no more than the
\* rounding of the float summation (one rounding per path and one each for the
\* division and the discounting).
C9_PermutedPriceWithinSummationTolerance ==
    RowsPermuted /\ PyDone =>
        /\ \A i \in 1..Rows(args.N) :
              /\ out.py.locals.non_touch[i] = prev.py.locals.non_touch[prev.change.p[i]]
              /\ out.py.locals.call_payout[i] = prev.py.locals.call_payout[prev.change.p[i]]
        /\ Within(DigitsPy, Rows(args.N) + 1, PyPrice, prev.py.npv, Max(PyPrice, prev.py.npv))

\* The rows were permuted and the positive price changed, within the tolerance.
C9_Witness ==
    /\ RowsPermuted /\ PyDone
    /\ PyPrice # prev.py.npv
    /\ PyPrice > 0

\* C10 as stated: the two Monte Carlo implementations compute the same
\* knock-out indicator for every path and the same price.
C10_PyAndTfEqual ==
    PyDone /\ TfDone =>
        /\ out.py.locals.non_touch = out.tf.nodes.non_touch
        /\ PyPrice = TfPrice

RECURSIVE MaxOf(_)
MaxOf(v) == IF Len(v) = 1 THEN v[1] ELSE Max(v[1], MaxOf(Tail(v)))

\* Roundings a path price goes through: one per step, and those of the scalars.
Roundings(a) == Cols(a.N) + 4

\* Every float64 grid-point price is further from the float64 corrected
\* barrier than the float32 rounding of the two.
ClearOfBarrier ==
    \A i \in 1..Rows(args.N) : \A j \in 1..Cols(args.N) :
        ~Within(DigitsTf, Roundings(args), out.py.locals.S_T[i][j], out.py.locals.B_shift,
                Max(out.py.locals.S_T[i][j], out.py.locals.B_shift))

\* C10 amended: the two implementations apply the same knock-out rule (on one
\* path matrix, row minimum > B_shift exactly when all grid points > B_shift);
\* the float64 and the float32 indicators agree when no float64 grid point is
\* within float32 rounding of the barrier, and where the indicators agree the
\* two prices agree to float32 rounding of the terminal path prices.
C10_PyAndTfAgreeToFloat32Rounding ==
    PyDone /\ TfDone =>
        /\ non_touch_tf(out.py.locals.S_T, out.py.locals.B_shift) = out.py.locals.non_touch
        /\ non_touch_py(out.tf.nodes.S_T, out.tf.nodes.B_shift) = out.tf.nodes.non_touch
        /\ ClearOfBarrier => out.py.locals.non_touch = out.tf.nodes.non_touch
        /\ out.py.locals.non_touch = out.tf.nodes.non_touch =>
              Within(DigitsTf, Roundings(args), PyPrice, TfPrice,
                     MaxOf(Array(LAMBDA i : out.py.locals.S_T[i][Cols(args.N)], Rows(args.N))))

\* Both ran clear of the barrier, on equal indicators, to different positive prices.
C10_Witness ==
    /\ PyDone /\ TfDone /\ ClearOfBarrier
    /\ PyPrice # TfPrice
    /\ TfPrice > 0 /\ PyPrice > 0

\* ------------------------------------------- claims on the analytic pricers
AnPyDone == ref.py.kind = "value"

AnTfDone == ref.tf.kind = "value"

\* The price C7 describes, computed in format d with exponent e:
\* bs(S,K,T,sigma,r) - (S/B)**e * bs(B**2/S,K,T,sigma,r)
CallMinusReflectedCall(d, S, K, dt, sigma, r, B, e) ==
    Sub(d, blackScholes_py(d, S, K, dt, sigma, r).npv,
        Mul(d, Pow(d, Div(d, S, B), e),
            blackScholes_py(d, Div(d, Mul(d, B, B), S), K, dt, sigma, r).npv))

\* price is, to one rounding of a number of the size of the spot, the price C7
\* describes for the arguments of the call, fed in format d
IsReflectionPrice(d, price) ==
    LET S == Cast(d, args.S_0)
        r == Cast(d, args.r)
        sigma == Cast(d, args.sigma)
    IN  Within(d, 1, price,
               CallMinusReflectedCall(d, S, Cast(d, args.K), Cast(d, args.T), sigma, r,
                                      Cast(d, args.B), exponent_two_r(d, r, sigma)),
               S)

\* C7: for valid inputs the analytic down-and-out price of either analytic
\* pricer is bs(S,K,T,sigma,r) minus (S/B) to the power 1 - 2r/sigma^2 times
\* bs(B^2/S,K,T,sigma,r), up to the rounding of the float format.
C7_ReflectionExponentIsOneMinusTwoROverSigma2 ==
    /\ AnPyDone => IsReflectionPrice(DigitsPy, ref.py.npv)
    /\ AnTfDone => IsReflectionPrice(DigitsTf, ref.tf.res[1])

\* the variables of a derivative list, in its order
Wrt(list) == Array(LAMBDA k : list[k].wrt, Len(list))

\* the derivative lists of a result: everything after the npv
Lists(res) == Array(LAMBDA k : Wrt(res[k + 1]), Len(res) - 1)

InvalidMarket(a) ==
    a.S_0 <= 0 \/ a.K <= 0 \/ a.T <= 0 \/ a.sigma <= 0 \/ a.S_0 <= a.B

InvalidSimulation(a) == Rows(a.N) < 1 \/ Cols(a.N) < 1

\* C4: a call with a non-positive S, K, T or sigma, with samples or steps below
\* 1, or with S <= B fails with an error and returns nothing: no price, no nan.
C4_InvalidInputFails ==
    /\ out.py # None /\ (InvalidMarket(args) \/ InvalidSimulation(args)) => out.py.kind = "raised"
    /\ ref.py # None /\ InvalidMarket(args) => ref.py.kind = "raised"

====
